---- MODULE Spec2Model ----
(***************************************************************************)
(* Model of the two algorithmic parts of the LAS repository:               *)
(*   - class Hypothesis of src/src/postprocess.py (beam-search history),   *)
(*   - the adversarial training loop test_solver of                        *)
(*     src/src/discriminator.py.                                           *)
(* Python lists are heap objects: `lists` maps a list identity to its      *)
(* contents and a Hypothesis holds identities, so aliasing is visible.     *)
(* Log-probabilities are written in tenths (-0.1 is -1).                   *)
(***************************************************************************)
EXTENDS Integers, Sequences, FiniteSets

VARIABLES
    lists,        \* heap of Python list objects: identity -> contents
    hyps,         \* the Hypothesis objects, in order of construction
    lastCall,     \* the last call made on the Hypothesis class
    lastResult,   \* what that call returned or raised
    pc,           \* test_solver: the statement about to run
    batch,        \* test_solver: number of batches fetched from dataloader
    param,        \* parameter value of each block (G, D, E)
    grad,         \* .grad buffer of each block
    optim,        \* optimizer state (Adam first moment) of each block
    fake_data,    \* the tensor bound to the local fake_data
    D_in,         \* the tensor last fed to the discriminator
    loss,         \* the loss tensor last computed (its autograd graph)
    hist          \* history record used to state the properties

hypVars == <<lists, hyps, lastCall, lastResult>>
advVars == <<pc, batch, param, grad, optim, fake_data, D_in, loss, hist>>
vars == <<lists, hyps, lastCall, lastResult,
          pc, batch, param, grad, optim, fake_data, D_in, loss, hist>>

(***************************************************************************)
(* Bounds of the model                                                     *)
(***************************************************************************)
MaxHyps == 2
MaxBatches == 3

(***************************************************************************)
(* Hypothesis (src/src/postprocess.py)                                     *)
(***************************************************************************)
\* token id of <eos>, tested at line 50 and appended at line 62
EOS == 1

None == <<>>
Some(v) == <<v>>

\* the two default-argument lists, created once when `def __init__` runs
DefaultSeq == 1
DefaultScores == 2

\* names bound in the module's global namespace after it is imported
ModuleGlobals ==
    [n \in {"ed", "np", "torch", "ALL_CHARS", "EOS_TKN", "SOS_TKN", "TOKENS",
            "Hypothesis", "calc_acc", "calc_err", "draw_att", "trim_eos"}
        |-> <<>>]

\* names a function body can read besides its own locals
NameResolves(n) == n \in DOMAIN ModuleGlobals

\* inputs of the callers
InitialStates == {"d0"}
DecoderStates == {"d1"}
LmStates == {"None", "lm1"}
SeqInputs == {<<>>, <<3, 4>>}
ScoreInputs == {<<>>, <<-2>>, <<-2, -3>>}
TopkInputs ==
    { [idx |-> <<5, 1>>, vals |-> <<-1, -5>>],
      [idx |-> <<5, 4>>, vals |-> <<-1, -5>>],
      [idx |-> <<1, 1>>, vals |-> <<-1, -5>>],
      [idx |-> <<1, 5>>, vals |-> <<-5, -1>>],
      [idx |-> <<3>>,    vals |-> <<-2>>] }

NoCall == [op |-> "none", self |-> 0, top_idx |-> <<>>, top_vals |-> <<>>,
           pre_seq |-> <<>>, pre_scores |-> <<>>, pre_hyps |-> 0,
           pre_state |-> "", pre_lm |-> ""]
NoResult == [kind |-> "none", exc |-> "", term |-> None, new_hyps |-> <<>>]
Raise(e) == [kind |-> "raise", exc |-> e, term |-> None, new_hyps |-> <<>>]
Return(t, n) == [kind |-> "return", exc |-> "", term |-> t, new_hyps |-> n]

\* line 19 with the assertion left out
InitAssertMissing(heap, output_seq, output_scores) == TRUE

\* line 19: assert len(output_seq) == len(output_scores)
InitAssert(heap, output_seq, output_scores) ==
    Len(heap[output_seq]) = Len(heap[output_scores])

\* lines 21-29: the fields of the new object; the lists are stored, not copied
HypothesisObject(decoder_state, output_seq, output_scores, lm_state) ==
    [decoder_state |-> decoder_state, lm_state |-> lm_state,
     output_seq |-> output_seq, output_scores |-> output_scores, emb |-> "emb"]

\* Hypothesis(decoder_state, emb, [output_seq], [output_scores], lm_state):
\* an argument left out is the default list object, one given is a list the
\* caller has just built
NewHypothesis(decoder_state, lm_state, seqArg, scoreArg) ==
    LET heap1 == IF seqArg = None THEN lists ELSE Append(lists, seqArg[1])
        seqId == IF seqArg = None THEN DefaultSeq ELSE Len(heap1)
        heap2 == IF scoreArg = None THEN heap1 ELSE Append(heap1, scoreArg[1])
        scoreId == IF scoreArg = None THEN DefaultScores ELSE Len(heap2)
    IN  /\ Len(hyps) < MaxHyps
        /\ lastCall' = [NoCall EXCEPT !.op = "init", !.pre_hyps = Len(hyps)]
        /\ IF InitAssert(heap2, seqId, scoreId)
           THEN /\ lists' = heap2
                /\ hyps' = Append(hyps,
                      HypothesisObject(decoder_state, seqId, scoreId, lm_state))
                /\ lastResult' = Return(None, <<Len(hyps) + 1>>)
           ELSE /\ lastResult' = Raise("AssertionError")
                /\ UNCHANGED <<lists, hyps>>
        /\ UNCHANGED advVars

\* lines 48-59: the loop over the candidates, from index i (0-based) on;
\* gives the final term_score and the contents of the children's lists
RECURSIVE TopkLoop(_, _, _, _, _, _, _)
TopkLoop(i, beam_size, top_idx, top_vals, self, term_score, new) ==
    IF i >= beam_size THEN [term_score |-> term_score, new |-> new]
    ELSE IF top_idx[i + 1] = EOS
         THEN TopkLoop(i + 1, beam_size, top_idx, top_vals, self,
                       Some(top_vals[i + 1]), new)
         ELSE TopkLoop(i + 1, beam_size, top_idx, top_vals, self, term_score,
                       Append(new,
                          [idxes |-> Append(lists[self.output_seq], top_idx[i + 1]),
                           scores |-> Append(lists[self.output_scores], top_vals[i + 1])]))

\* heap after the children's lists (idxes, scores of each) are allocated
RECURSIVE AllocChildren(_, _)
AllocChildren(heap, new) ==
    IF new = <<>> THEN heap
    ELSE AllocChildren(Append(Append(heap, new[1].idxes), new[1].scores), Tail(new))

\* self.add_topk(top_idx, top_vals, decoder_state, lm_state), lines 44-66
AddTopk(h, top_idx, top_vals, decoder_state, lm_state) ==
    LET self == hyps[h]
        call == [op |-> "add_topk", self |-> h, top_idx |-> top_idx,
                 top_vals |-> top_vals,
                 pre_seq |-> lists[self.output_seq],
                 pre_scores |-> lists[self.output_scores],
                 pre_hyps |-> Len(hyps),
                 pre_state |-> self.decoder_state, pre_lm |-> self.lm_state]
    IN  /\ lastCall' = call
        /\ UNCHANGED advVars
        /\ IF ~NameResolves("topi")
           THEN \* line 46: len(topi[0]) reads a name that is bound nowhere
                /\ lastResult' = Raise("NameError")
                /\ UNCHANGED <<lists, hyps>>
           ELSE LET beam_size == Len(ModuleGlobals["topi"][1])
                IN  IF beam_size > Len(top_idx)
                    THEN /\ lastResult' = Raise("IndexError")
                         /\ UNCHANGED <<lists, hyps>>
                    ELSE LET r == TopkLoop(0, beam_size, top_idx, top_vals,
                                           self, None, <<>>)
                             n == Len(r.new)
                             heap1 == AllocChildren(lists, r.new)
                             kids == [k \in 1..n |->
                                        HypothesisObject(decoder_state,
                                            Len(lists) + 2 * k - 1,
                                            Len(lists) + 2 * k, lm_state)]
                             ids == [k \in 1..n |-> Len(hyps) + k]
                         IN  /\ hyps' = hyps \o kids
                             /\ IF r.term_score # None
                                THEN \* lines 62-64
                                     /\ lists' = [heap1 EXCEPT
                                          ![self.output_seq] = Append(@, EOS),
                                          ![self.output_scores] =
                                              Append(@, r.term_score[1])]
                                     /\ lastResult' = Return(Some(h), ids)
                                ELSE \* line 66
                                     /\ lists' = heap1
                                     /\ lastResult' = Return(None, ids)

InitHypVars ==
    /\ lists = << <<>>, <<>> >>
    /\ hyps = <<>>
    /\ lastCall = NoCall
    /\ lastResult = NoResult

NextHypothesis ==
    \/ \E d \in InitialStates, l \in LmStates,
          s \in {None} \cup {Some(x) : x \in SeqInputs},
          c \in {None} \cup {Some(x) : x \in ScoreInputs} :
            NewHypothesis(d, l, s, c)
    \/ \E h \in 1..Len(hyps), t \in TopkInputs, d \in DecoderStates, l \in LmStates :
            AddTopk(h, t.idx, t.vals, d, l)

(***************************************************************************)
(* Adversarial training loop (src/src/discriminator.py, test_solver)       *)
(***************************************************************************)
\* G: generator (Listener), D: discriminator, E: data_distribution (the
\* text encoder)
Blocks == {"G", "D", "E"}

\* values a back-propagated gradient can take
GradVals == {-1, 1}

Sgn(x) == IF x > 0 THEN 1 ELSE IF x < 0 THEN -1 ELSE 0

\* a tensor is known by the autograd graph behind it: `leaves` are the blocks
\* whose parameters a backward pass through it reaches
NoTensor == [defined |-> FALSE, leaves |-> {}, tracked |-> FALSE,
             detached |-> FALSE, made_in |-> 0, d_steps |-> 0]

\* line 141: fake_data, _ = generator(x, x_lens); no torch.no_grad() is in
\* force, so the result carries the generator's graph
GeneratorForward(b, ds) ==
    [defined |-> TRUE, leaves |-> {"G"}, tracked |-> TRUE,
     detached |-> FALSE, made_in |-> b, d_steps |-> ds]

\* line 133: real_data = data_distribution(y)
DataDistribution(b, ds) ==
    [defined |-> TRUE, leaves |-> {"E"}, tracked |-> TRUE,
     detached |-> FALSE, made_in |-> b, d_steps |-> ds]

\* line 144: fake_data.detach(), the same values cut off from their graph
Detach(t) == [t EXCEPT !.leaves = {}, !.detached = TRUE]

\* line 176 with the generator run a second time
GenPhaseInputRecomputed(fd, b, ds) == GeneratorForward(b, ds)

\* line 176: discriminator(fake_data) reads the local bound at line 141
GenPhaseInput(fd, b, ds) == fd

\* lines 134-136, 144-146, 176-178: discriminator(t) and the BCE loss on it
DiscriminatorLoss(t) == [leaves |-> t.leaves \cup {"D"}]

\* loss.backward(): adds the gradient to the buffer of every leaf of the graph
Backward(g, l, v) == [b \in Blocks |-> IF b \in l.leaves THEN g[b] + v ELSE g[b]]

\* zero_grad() that clears nothing
ZeroGradNoop(g, b) == g

\* lines 130, 158: <block>.zero_grad()
ZeroGrad(g, b) == [g EXCEPT ![b] = 0]

\* generator_optim built over the discriminator's parameters too
GenOptimParamsBoth == {"G", "D"}

\* lines 115-116: generator_optim = Adam(generator.parameters(), ...)
GenOptimParams == {"G"}

\* discriminator_optim built over the generator's parameters too
DiscOptimParamsBoth == {"D", "G"}

\* lines 117-118: discriminator_optim = Adam(discriminator.parameters(), ...)
DiscOptimParams == {"D"}

\* <optim>.step(): Adam folds each owned buffer into its running moment ...
StepMoment(m, g, owned) == [b \in Blocks |-> IF b \in owned THEN m[b] + g[b] ELSE m[b]]

\* ... and moves each owned parameter one learning-rate unit against it
StepParam(p, m, owned) == [b \in Blocks |-> IF b \in owned THEN p[b] - Sgn(m[b]) ELSE p[b]]

\* the loop body with the generator phase first
StmtsGeneratorFirst ==
    <<"g_zero", "g_fwd", "g_bwd", "g_step",
      "d_zero", "d_real", "gen_fwd", "d_fake", "d_step">>

\* lines 130-183: the statements of the loop body, in program order
Stmts ==
    <<"d_zero", "d_real", "gen_fwd", "d_fake", "d_step",
      "g_zero", "g_fwd", "g_bwd", "g_step">>

StmtIndex(p) == CHOOSE i \in 1..Len(Stmts) : Stmts[i] = p

\* the statement after p; after the last one the for loop asks for a batch
NextStmt(p) ==
    IF StmtIndex(p) = Len(Stmts) THEN "fetch" ELSE Stmts[StmtIndex(p) + 1]

NoHist == [dStartParamG |-> 0, dStartGradG |-> 0, dStartParamD |-> 0,
           gStartParamD |-> 0,
           gStartParamG |-> 0, genFwd |-> 0, dSteps |-> 0, gSteps |-> 0,
           realG |-> 0, fakeG |-> 0, gradBeforeZero |-> 0, gLossD |-> 0,
           gFwdDSteps |-> 0, dPhaseIn |-> NoTensor]

At(p) == pc = p

Goto(p) == pc' = NextStmt(p)

\* lines 81-120: imports, dataset, models, optimizers. Whether they succeed
\* is decided by modules outside src/ (dataset, asr, text_autoencoder, and
\* torch, whose attribute torch.rnn line 43 of Discriminator.__init__ reads),
\* so either outcome is allowed
Setup ==
    /\ At("setup")
    /\ \/ pc' = "fetch"
       \/ pc' = "crashed"
    /\ UNCHANGED <<batch, param, grad, optim, fake_data, D_in, loss, hist>>
    /\ UNCHANGED hypVars

\* line 122: for (x, y) in dataloader
Fetch ==
    /\ At("fetch")
    /\ \/ /\ batch < MaxBatches
          /\ batch' = batch + 1
          /\ pc' = Stmts[1]
          /\ hist' = [hist EXCEPT !.genFwd = 0, !.realG = 0, !.fakeG = 0,
                                  !.gLossD = 0]
       \/ /\ pc' = "done"
          /\ UNCHANGED <<batch, hist>>
    /\ UNCHANGED <<param, grad, optim, fake_data, D_in, loss>>
    /\ UNCHANGED hypVars

\* line 130: discriminator.zero_grad()
DZero ==
    /\ At("d_zero") /\ Goto("d_zero")
    /\ grad' = ZeroGrad(grad, "D")
    /\ hist' = [hist EXCEPT !.dStartParamG = param["G"],
                            !.dStartGradG = grad["G"],
                            !.dStartParamD = param["D"],
                            !.gradBeforeZero = grad["D"]]
    /\ UNCHANGED <<batch, param, optim, fake_data, D_in, loss>>
    /\ UNCHANGED hypVars

\* lines 133-138: real data through D, D_realloss.backward()
DReal ==
    /\ At("d_real") /\ Goto("d_real")
    /\ \E v \in GradVals :
         LET t == DataDistribution(batch, hist.dSteps)
             l == DiscriminatorLoss(t)
         IN  /\ D_in' = t
             /\ loss' = l
             /\ grad' = Backward(grad, l, v)
             /\ hist' = [hist EXCEPT !.realG = v]
    /\ UNCHANGED <<batch, param, optim, fake_data>>
    /\ UNCHANGED hypVars

\* line 141: fake_data, _ = generator(x, x_lens)
GenFwd ==
    /\ At("gen_fwd") /\ Goto("gen_fwd")
    /\ fake_data' = GeneratorForward(batch, hist.dSteps)
    /\ hist' = [hist EXCEPT !.genFwd = @ + 1]
    /\ UNCHANGED <<batch, param, grad, optim, D_in, loss>>
    /\ UNCHANGED hypVars

\* lines 144-148: detached fake data through D, D_fakeloss.backward()
DFake ==
    /\ At("d_fake") /\ Goto("d_fake")
    /\ \E v \in GradVals :
         LET t == Detach(fake_data)
             l == DiscriminatorLoss(t)
         IN  /\ D_in' = t
             /\ loss' = l
             /\ grad' = Backward(grad, l, v)
             /\ hist' = [hist EXCEPT !.fakeG = v, !.dPhaseIn = t]
    /\ UNCHANGED <<batch, param, optim, fake_data>>
    /\ UNCHANGED hypVars

\* line 152: discriminator_optim.step()
DStep ==
    /\ At("d_step") /\ Goto("d_step")
    /\ optim' = StepMoment(optim, grad, DiscOptimParams)
    /\ param' = StepParam(param, optim', DiscOptimParams)
    /\ hist' = [hist EXCEPT !.dSteps = @ + 1]
    /\ UNCHANGED <<batch, grad, fake_data, D_in, loss>>
    /\ UNCHANGED hypVars

\* line 158: generator.zero_grad()
GZero ==
    /\ At("g_zero") /\ Goto("g_zero")
    /\ grad' = ZeroGrad(grad, "G")
    /\ hist' = [hist EXCEPT !.gStartParamD = param["D"],
                            !.gStartParamG = param["G"]]
    /\ UNCHANGED <<batch, param, optim, fake_data, D_in, loss>>
    /\ UNCHANGED hypVars

\* lines 176-178: D_out = discriminator(fake_data); G_loss
GFwd ==
    /\ At("g_fwd") /\ Goto("g_fwd")
    /\ LET t == GenPhaseInput(fake_data, batch, hist.dSteps)
       IN  /\ D_in' = t
           /\ loss' = DiscriminatorLoss(t)
    /\ hist' = [hist EXCEPT !.gFwdDSteps = hist.dSteps]
    /\ UNCHANGED <<batch, param, grad, optim, fake_data>>
    /\ UNCHANGED hypVars

\* line 181: G_loss.backward()
GBwd ==
    /\ At("g_bwd") /\ Goto("g_bwd")
    /\ \E v \in GradVals :
         /\ grad' = Backward(grad, loss, v)
         /\ hist' = [hist EXCEPT !.gLossD = IF "D" \in loss.leaves THEN v ELSE 0]
    /\ UNCHANGED <<batch, param, optim, fake_data, D_in, loss>>
    /\ UNCHANGED hypVars

\* line 183: generator_optim.step()
GStep ==
    /\ At("g_step") /\ Goto("g_step")
    /\ optim' = StepMoment(optim, grad, GenOptimParams)
    /\ param' = StepParam(param, optim', GenOptimParams)
    /\ hist' = [hist EXCEPT !.gSteps = @ + 1]
    /\ UNCHANGED <<batch, grad, fake_data, D_in, loss>>
    /\ UNCHANGED hypVars

InitAdvVars ==
    /\ pc = "setup"
    /\ batch = 0
    /\ param = [b \in Blocks |-> 0]
    /\ grad = [b \in Blocks |-> 0]
    /\ optim = [b \in Blocks |-> 0]
    /\ fake_data = NoTensor
    /\ D_in = NoTensor
    /\ loss = [leaves |-> {}]
    /\ hist = NoHist

NextAdv ==
    \/ Setup \/ Fetch
    \/ DZero \/ DReal \/ GenFwd \/ DFake \/ DStep
    \/ GZero \/ GFwd \/ GBwd \/ GStep

(***************************************************************************)
(* Specifications                                                          *)
(***************************************************************************)
Init == InitHypVars /\ InitAdvVars

\* the Hypothesis class driven by a caller
SpecHyp == Init /\ [][NextHypothesis]_vars

\* one run of test_solver
SpecAdv == Init /\ [][NextAdv]_vars

(***************************************************************************)
(* Properties of Hypothesis, checked under SpecHyp                         *)
(***************************************************************************)
Range(f) == {f[i] : i \in DOMAIN f}

SeqOf(h) == lists[hyps[h].output_seq]
ScoresOf(h) == lists[hyps[h].output_scores]

Indexes(s) == [i \in 1..Len(s) |-> i]
IsEosAt(i) == lastCall.top_idx[i] = EOS
IsNotEosAt(i) == lastCall.top_idx[i] # EOS
\* the positions of the non-EOS candidates of the last add_topk, in order
NonEosPositions == SelectSeq(Indexes(lastCall.top_idx), IsNotEosAt)
\* the positions of the EOS candidates of the last add_topk, in order
EosPositions == SelectSeq(Indexes(lastCall.top_idx), IsEosAt)

\* the last call was add_topk and it returned one child per non-EOS candidate,
\* in candidate order, each the parent's pre-call history plus the candidate
ChildrenPerNonEos ==
    /\ lastResult.kind = "return"
    /\ Len(lastResult.new_hyps) = Len(NonEosPositions)
    /\ \A k \in 1..Len(NonEosPositions) :
         LET c == lastResult.new_hyps[k]
             i == NonEosPositions[k]
         IN  /\ c \in 1..Len(hyps)
             /\ SeqOf(c) = Append(lastCall.pre_seq, lastCall.top_idx[i])
             /\ ScoresOf(c) = Append(lastCall.pre_scores, lastCall.top_vals[i])

\* the hypothesis add_topk was called on is as it was before the call
ParentUnmodified ==
    /\ SeqOf(lastCall.self) = lastCall.pre_seq
    /\ ScoresOf(lastCall.self) = lastCall.pre_scores
    /\ hyps[lastCall.self].decoder_state = lastCall.pre_state
    /\ hyps[lastCall.self].lm_state = lastCall.pre_lm

\* C1: every Hypothesis that exists has output_seq and output_scores of the
\* same length, after any sequence of constructions and add_topk calls.
C1_SeqScoresSameLength ==
    \A h \in 1..Len(hyps) : Len(SeqOf(h)) = Len(ScoresOf(h))

\* add_topk has been called on a hypothesis with a two-token history while a
\* second hypothesis exists
C1_Witness ==
    /\ lastCall.op = "add_topk"
    /\ Len(hyps) = 2
    /\ Len(SeqOf(lastCall.self)) = 2
    /\ \E h \in 1..Len(hyps) : hyps[h].output_seq = DefaultSeq

\* C2: when the candidates contain EOS, add_topk returns the calling
\* hypothesis and one child per non-EOS candidate; the calling hypothesis has
\* EOS and the EOS candidate's log-prob appended to its pre-call history.
C2_EosTerminatesParent ==
    (lastCall.op = "add_topk" /\ EOS \in Range(lastCall.top_idx)) =>
        /\ ChildrenPerNonEos
        /\ lastResult.term = Some(lastCall.self)
        /\ SeqOf(lastCall.self) = Append(lastCall.pre_seq, EOS)
        /\ \E i \in Range(EosPositions) :
             ScoresOf(lastCall.self) =
                 Append(lastCall.pre_scores, lastCall.top_vals[i])

\* C3: when no candidate is EOS, add_topk returns None and K children and
\* leaves the calling hypothesis as it was.
C3_NoEosLeavesParent ==
    (lastCall.op = "add_topk" /\ EOS \notin Range(lastCall.top_idx)) =>
        /\ ChildrenPerNonEos
        /\ lastResult.term = None
        /\ Len(lastResult.new_hyps) = Len(lastCall.top_idx)
        /\ ParentUnmodified

\* C8: when several candidates are EOS, the calling hypothesis is terminated
\* with the log-prob of the first of them, and no EOS candidate gets a child.
C8_FirstEosScore ==
    (lastCall.op = "add_topk" /\ Len(EosPositions) > 1) =>
        /\ lastResult.kind = "return"
        /\ lastResult.term = Some(lastCall.self)
        /\ ScoresOf(lastCall.self) =
               Append(lastCall.pre_scores, lastCall.top_vals[EosPositions[1]])
        /\ Len(lastResult.new_hyps) = Len(NonEosPositions)

\* C10: no two distinct Hypothesis objects hold the same output_seq list or
\* the same output_scores list.
C10_NoSharedHistory ==
    \A a, b \in 1..Len(hyps) :
        a # b => /\ hyps[a].output_seq # hyps[b].output_seq
                 /\ hyps[a].output_scores # hyps[b].output_scores

(***************************************************************************)
(* Properties of the training loop, checked under SpecAdv                  *)
(***************************************************************************)
\* Phase D has begun (line 130 has run) and Phase G has not
InPhaseD == pc \in {"d_real", "gen_fwd", "d_fake", "d_step", "g_zero"}
\* Phase G has begun (line 158 has run)
InPhaseG == batch >= 1 /\ pc \in {"g_fwd", "g_bwd", "g_step", "fetch", "done"}

\* C4: from the start of Phase D up to and including the discriminator's
\* optimizer step the generator's parameters keep their value, and its
\* gradient buffers receive nothing from the discriminator's losses.
C4_PhaseDKeepsGenerator ==
    InPhaseD => /\ param["G"] = hist.dStartParamG
                /\ grad["G"] = hist.dStartGradG

\* the discriminator's optimizer step of the second batch has just moved the
\* discriminator, the generator having been trained in the first batch
C4_Witness ==
    /\ pc = "g_zero" /\ batch = 2
    /\ param["D"] # hist.dStartParamD
    /\ param["G"] # 0 /\ grad["G"] # 0

\* C5: from the start of Phase G up to and including the generator's
\* optimizer step the discriminator's parameters keep their value.
C5_PhaseGKeepsDiscriminator ==
    InPhaseG => param["D"] = hist.gStartParamD

\* the generator's optimizer step has just moved the generator while the
\* generator loss had filled the discriminator's gradient buffer
C5_Witness ==
    /\ pc = "fetch" /\ batch = 2
    /\ hist.gLossD # 0 /\ grad["D"] # 0
    /\ param["G"] # hist.gStartParamG

\* C6: in every batch Phase D runs once, then Phase G once; the generator
\* loss is evaluated with the discriminator weights of this batch's step.
C6_PhaseDThenPhaseG ==
    /\ pc \in {"d_zero", "d_real", "gen_fwd", "d_fake", "d_step"} =>
           hist.dSteps = batch - 1 /\ hist.gSteps = batch - 1
    /\ pc \in {"g_zero", "g_fwd", "g_bwd", "g_step"} =>
           hist.dSteps = batch /\ hist.gSteps = batch - 1
    /\ pc \in {"fetch", "done"} =>
           hist.dSteps = batch /\ hist.gSteps = batch
    /\ pc \in {"g_bwd", "g_step"} => hist.gFwdDSteps = batch

\* the second batch is about to take its generator step
C6_Witness ==
    /\ pc = "g_step" /\ batch = 2
    /\ hist.gFwdDSteps = 2 /\ hist.dSteps = 2 /\ hist.gSteps = 1

\* C7 as stated: the fake embeddings the generator loss is computed from come
\* from a second generator forward pass made after the discriminator's step,
\* and Phase D's own forward pass ran with gradient tracking disabled.
C7_SecondForwardPass ==
    pc \in {"g_bwd", "g_step"} =>
        /\ hist.genFwd = 2
        /\ D_in.d_steps = batch
        /\ ~hist.dPhaseIn.tracked

\* C7 amended: each batch runs the generator once, in Phase D before the
\* discriminator's step and with gradient tracking enabled; Phase D feeds the
\* discriminator a detached copy, Phase G feeds it that same tensor undetached.
C7_SingleForwardPassReused ==
    pc \in {"g_bwd", "g_step"} =>
        /\ hist.genFwd = 1
        /\ D_in = fake_data
        /\ fake_data.tracked /\ fake_data.leaves = {"G"}
        /\ fake_data.made_in = batch /\ fake_data.d_steps = batch - 1
        /\ hist.dPhaseIn = [fake_data EXCEPT !.leaves = {}, !.detached = TRUE]

\* the generator loss of the second batch has been computed
C7_Witness ==
    /\ pc = "g_bwd" /\ batch = 2
    /\ D_in.defined /\ "G" \in loss.leaves /\ "D" \in loss.leaves

\* C9: at every discriminator optimizer step the discriminator's gradient
\* buffer is the sum of this batch's real-loss and fake-loss gradients.
C9_StepUsesThisBatchOnly ==
    pc = "d_step" => grad["D"] = hist.realG + hist.fakeG

\* a discriminator step of a later batch, whose zero_grad cleared a buffer the
\* previous batch's generator loss had filled
C9_Witness ==
    /\ pc = "d_step" /\ batch >= 2
    /\ hist.gradBeforeZero # 0
    /\ grad["D"] # 0

====
